---- MODULE Spec2Model ----
(***************************************************************************)
(* Abacus task-management backend: user directory, JWT authentication,     *)
(* task repository, status/priority normalisation and the task query       *)
(* engine (routers/tasks.py, routers/users.py, routers/auth.py,            *)
(* core/security.py, scripts/*.py).                                        *)
(*                                                                         *)
(* Python strings that the code inspects character by character (status   *)
(* and priority labels, ids, query text) are sequences of one-character    *)
(* strings.  An optional value is <<>> (None / absent) or <<v>>.           *)
(***************************************************************************)
EXTENDS Integers, Sequences, FiniteSets, TLC

(***************************************************************************)
(* Python str primitives                                                   *)
(***************************************************************************)
UpperChars == <<"A","B","C","D","E","F","G","H","I","J","K","L","M",
                "N","O","P","Q","R","S","T","U","V","W","X","Y","Z">>

LowerChars == <<"a","b","c","d","e","f","g","h","i","j","k","l","m",
                "n","o","p","q","r","s","t","u","v","w","x","y","z">>

DigitChars == {"0","1","2","3","4","5","6","7","8","9"}

\* the whitespace characters str.strip() removes
SpaceChars == {" ", "\t", "\n", "\r"}

\* str.lower() on one character
LowerChar(c) ==
    IF \E i \in 1..26 : UpperChars[i] = c
    THEN LowerChars[CHOOSE i \in 1..26 : UpperChars[i] = c]
    ELSE c

\* str.lower()
StrLower(s) == [i \in 1..Len(s) |-> LowerChar(s[i])]

\* str.replace(a, b) for one-character a and b
StrReplace(s, a, b) == [i \in 1..Len(s) |-> IF s[i] = a THEN b ELSE s[i]]

\* str.strip()
StrStrip(s) ==
    LET keep == {i \in 1..Len(s) : s[i] \notin SpaceChars}
    IN  IF keep = {} THEN <<>>
        ELSE LET lo == CHOOSE i \in keep : \A j \in keep : i <= j
                 hi == CHOOSE i \in keep : \A j \in keep : j <= i
             IN  SubSeq(s, lo, hi)

\* str.isdigit()
StrIsDigit(s) == Len(s) > 0 /\ \A i \in 1..Len(s) : s[i] \in DigitChars

\* str(int(s)) for a digit string: the decimal rendering without leading zeros
StrOfInt(s) ==
    LET nz == {i \in 1..Len(s) : s[i] # "0"}
    IN  IF nz = {} THEN <<"0">>
        ELSE SubSeq(s, CHOOSE i \in nz : \A j \in nz : i <= j, Len(s))

\* a in b (substring test)
StrContains(b, a) ==
    \E i \in 0..(Len(b) - Len(a)) : SubSeq(b, i + 1, i + Len(a)) = a

\* SQL ILIKE '%q%' (ASCII case-insensitive substring)
ILikeContains(col, q) == StrContains(StrLower(col), StrLower(q))

\* position of a character in the collation order used for text comparison
CharRank(c) ==
    IF \E i \in 1..26 : LowerChars[i] = c
    THEN CHOOSE i \in 1..26 : LowerChars[i] = c
    ELSE 0

\* a < b for text columns (lexicographic)
RECURSIVE StrLess(_, _)
StrLess(a, b) ==
    IF b = <<>> THEN FALSE
    ELSE IF a = <<>> THEN TRUE
    ELSE IF CharRank(Head(a)) # CharRank(Head(b))
         THEN CharRank(Head(a)) < CharRank(Head(b))
         ELSE StrLess(Tail(a), Tail(b))

(***************************************************************************)
(* models/tasks.py, models/users.py: enumerations                          *)
(***************************************************************************)
S_not_started == <<"n","o","t","_","s","t","a","r","t","e","d">>
S_in_progress == <<"i","n","_","p","r","o","g","r","e","s","s">>
S_completed   == <<"c","o","m","p","l","e","t","e","d">>
S_approved    == <<"a","p","p","r","o","v","e","d">>
S_rejected    == <<"r","e","j","e","c","t","e","d">>
S_resubmit    == <<"r","e","s","u","b","m","i","t">>

P_low      == <<"l","o","w">>
P_medium   == <<"m","e","d","i","u","m">>
P_high     == <<"h","i","g","h">>
P_critical == <<"c","r","i","t","i","c","a","l">>

\* class TaskStatus(str, Enum): the member values
TaskStatus == {S_not_started, S_in_progress, S_completed, S_approved,
               S_rejected, S_resubmit}

\* class TaskPriority(str, Enum): the member values
TaskPriority == {P_low, P_medium, P_high, P_critical}

\* class Role(str, Enum)
Role == {"admin", "manager", "employee"}

\* str(member) of a (str, Enum) member is "<ClassName>.<name>"
StrOfTaskStatus(m) == <<"T","a","s","k","S","t","a","t","u","s",".">> \o m

StrOfTaskPriority(m) ==
    <<"T","a","s","k","P","r","i","o","r","i","t","y",".">> \o m

(***************************************************************************)
(* routers/tasks.py: canonical enums and normalisation                     *)
(***************************************************************************)
VALID_STATUSES == {S_not_started, S_in_progress, S_completed, S_approved,
                   S_rejected, S_resubmit}

VALID_PRIORITIES == {P_low, P_medium, P_high, P_critical}

TERMINAL_STATUSES == {S_completed, S_approved, S_rejected}

\* the dict as a set of <<key, value>> pairs
STATUS_CANON ==
    { << <<"t","o"," ","d","o">>, S_not_started >>,
      << <<"t","o","d","o">>, S_not_started >>,
      << <<"n","o","t"," ","s","t","a","r","t","e","d">>, S_not_started >>,
      << <<"i","n"," ","p","r","o","g","r","e","s","s">>, S_in_progress >>,
      << <<"r","e","-","s","u","b","m","i","s","s","i","o","n">>, S_resubmit >>,
      << <<"r","e"," ","s","u","b","m","i","s","s","i","o","n">>, S_resubmit >>,
      << <<"r","e","-","s","u","b","m","i","t","t","e","d">>, S_resubmit >> }

PRIORITY_CANON == { << <<"n","o","r","m","a","l">>, P_medium >> }

\* dict.get(key, default)
DictGet(d, key, default) ==
    IF \E kv \in d : kv[1] = key
    THEN (CHOOSE kv \in d : kv[1] = key)[2]
    ELSE default

\* canon_status without the final membership test (a faulty variant)
canon_status_unchecked(val) ==
    IF val = <<>> THEN <<>>
    ELSE LET s0 == StrStrip(val[1])
             s1 == StrReplace(StrReplace(StrLower(s0), "_", " "), "-", " ")
             s2 == DictGet(STATUS_CANON, s1, s1)
             s3 == StrReplace(s2, " ", "_")
         IN  IF s0 = <<>> THEN <<>> ELSE <<s3>>

\* canon_status(val): val is <<>> (None) or <<string>>; the result is <<>>
\* (None) or <<canonical status>>
canon_status(val) ==
    IF val = <<>> THEN <<>>
    ELSE LET s0 == StrStrip(val[1])
             s1 == StrReplace(StrReplace(StrLower(s0), "_", " "), "-", " ")
             s2 == DictGet(STATUS_CANON, s1, s1)
             s3 == StrReplace(s2, " ", "_")
         IN  IF s0 = <<>> THEN <<>>
             ELSE IF s3 \in VALID_STATUSES THEN <<s3>> ELSE <<>>

\* canon_priority(val)
canon_priority(val) ==
    IF val = <<>> THEN <<>>
    ELSE LET p0 == StrStrip(val[1])
             p1 == StrLower(p0)
             p2 == DictGet(PRIORITY_CANON, p1, p1)
         IN  IF p0 = <<>> THEN <<>>
             ELSE IF p2 \in VALID_PRIORITIES THEN <<p2>> ELSE <<>>

(***************************************************************************)
(* Bounds and the values requests are drawn from                           *)
(***************************************************************************)
MaxUsers == 2

MaxTasks == 2

MaxClients == 2

MaxTicks == 3

Clients == 1..MaxClients

\* short_uuid(): five characters of a uuid4; some are all digits
IdPool == << <<"1","0","2","3","4">>, <<"a","3","f","9","c">>,
             <<"7","b","e","2","1">>, <<"0","4","4","1","7">> >>

U_alice == <<"a","l","i","c","e">>
U_bob   == <<"b","o","b">>
E_alice == <<"a","@","x",".","c","o","m">>
E_bob   == <<"b","@","x",".","c","o","m">>
U_eve   == <<"e","v","e">>
E_eve   == <<"e","@","x",".","c","o","m">>

Usernames == {U_alice, U_bob}

Emails == {E_alice, E_bob}

Passwords == {"pw1", "pw2"}

(***************************************************************************)
(* State                                                                   *)
(*   users  : the users table, rows in rowid (insertion) order             *)
(*   tasks  : the tasks table, a set of rows keyed by id                   *)
(*   tokens : per client, the bearer token it holds (<<>> when none)        *)
(*   now    : the clock, in minutes                                        *)
(*   resp   : the operation last served and its status code                *)
(*   sessions : per client, the ORM Session of its task update that has    *)
(*            read its row and not yet committed, or has committed last    *)
(***************************************************************************)
\* a client without a task update in flight
NoSession ==
    [phase |-> "idle", op |-> "none", loaded |-> <<>>, dirty |-> <<>>,
     code |-> 0, overtook |-> {}, last |-> FALSE]

VARIABLES users, tasks, tokens, now, resp, sessions

vars == <<users, tasks, tokens, now, resp, sessions>>

\* init_db(): empty tables; no token minted, no request served
Init ==
    /\ users = <<>>
    /\ tasks = {}
    /\ tokens = [c \in Clients |-> <<>>]
    /\ now = 0
    /\ resp = [op |-> "startup", code |-> 0]
    /\ sessions = [c \in Clients |-> NoSession]

(***************************************************************************)
(* core/security.py                                                        *)
(***************************************************************************)
ACCESS_TOKEN_EXPIRE_MINUTES == 60

\* get_password_hash(password): a salted bcrypt hash; the salt is not kept
get_password_hash(password) == <<"$2b$", password>>

\* passlib cannot identify the hash (empty or not a bcrypt hash): it raises
HashUnknown(hashed_password) ==
    Len(hashed_password) # 2 \/ hashed_password[1] # "$2b$"

\* verify_password(plain_password, hashed_password), for an identifiable hash
verify_password(plain_password, hashed_password) ==
    hashed_password[2] = plain_password

\* create_access_token(subject, extra_claims={"uid": ...})
create_access_token(subject, uid) ==
    [sub |-> subject, uid |-> uid, iat |-> now,
     exp |-> now + ACCESS_TOKEN_EXPIRE_MINUTES]

\* jwt.decode(token, SECRET_KEY, algorithms=[ALGORITHM]) followed by
\* payload.get("sub"): <<>> when no token is sent or the decode raises
\* JWTError; the library raises ExpiredSignatureError when exp < now
jwt_decode(token) ==
    IF token = <<>> \/ token[1].exp < now THEN <<>> ELSE <<token[1].sub>>

(***************************************************************************)
(* routers/auth.py                                                         *)
(***************************************************************************)
\* the positions of the rows of the users table
Rows == DOMAIN users

\* .first() of a SELECT over users: of the rows (positions) hit, the first
\* in rowid order
FirstUser(hit) ==
    IF hit = {} THEN <<>>
    ELSE <<users[CHOOSE i \in hit : \A j \in hit : i <= j]>>

\* get_user_by_identifier(db, ident)
get_user_by_identifier(ident) ==
    FirstUser({i \in Rows : users[i].username = ident
                             \/ users[i].email = ident})

\* authenticate_user(db, ident, password)
authenticate_user(ident, password) ==
    LET user == get_user_by_identifier(ident)
    IN  IF user = <<>> THEN <<>>
        ELSE IF user[1].password_hash = <<>> THEN <<>>
        ELSE IF HashUnknown(user[1].password_hash) THEN <<>>
        ELSE IF ~verify_password(password, user[1].password_hash) THEN <<>>
        ELSE user

\* get_current_user that finds the user by the token's uid claim when no
\* user carries its subject (a variant)
get_current_user_by_uid(token) ==
    LET sub == jwt_decode(token)
    IN  IF sub = <<>> THEN <<>>
        ELSE IF get_user_by_identifier(sub[1]) # <<>>
        THEN get_user_by_identifier(sub[1])
        ELSE FirstUser({i \in Rows : users[i].id = token[1].uid})

\* get_current_user(token, db): <<>> stands for the 401 cred_exc
get_current_user(token) ==
    LET sub == jwt_decode(token)
    IN  IF sub = <<>> THEN <<>> ELSE get_user_by_identifier(sub[1])

\* the body of the HTTPException login raises
E_InvalidCredentials == [detail |-> "Incorrect username/email or password"]

\* the body of a successful login
TokenBody(token) == [access_token |-> token, token_type |-> "bearer"]

\* login that answers 404 when no user carries the identifier (a variant)
login_tells_unknown(c, username, password) ==
    LET user == authenticate_user(username, password)
        token == create_access_token(user[1].username, user[1].id)
    IN  IF get_user_by_identifier(username) = <<>>
        THEN [code |-> 404, body |-> [detail |-> "User not found"],
              tokens |-> tokens]
        ELSE IF user = <<>>
        THEN [code |-> 400, body |-> E_InvalidCredentials, tokens |-> tokens]
        ELSE [code |-> 200, body |-> TokenBody(token),
              tokens |-> [tokens EXCEPT ![c] = <<token>>]]

\* POST /auth/login by client c: the status code, the body and the tokens
\* held after
login(c, username, password) ==
    LET user == authenticate_user(username, password)
        token == create_access_token(user[1].username, user[1].id)
    IN  IF user = <<>>
        THEN [code |-> 400, body |-> E_InvalidCredentials, tokens |-> tokens]
        ELSE [code |-> 200, body |-> TokenBody(token),
              tokens |-> [tokens EXCEPT ![c] = <<token>>]]

(***************************************************************************)
(* routers/users.py                                                        *)
(* A row of users is [id, username, email, role, password_hash]; the       *)
(* display name and the row timestamps, which no handler reads, are left   *)
(* out.  A handler is an operator from the request to the status code and  *)
(* the users table after the request.                                      *)
(***************************************************************************)
UserIds == {IdPool[i] : i \in 1..MaxUsers}

\* is_admin that also passes managers (a variant)
is_admin_or_staff(user) == user.role \in {"admin", "manager"}

\* is_admin(user)
is_admin(user) == user.role = "admin"

\* session.get(User, pk)
UserByPk(pk) == FirstUser({i \in Rows : users[i].id = pk})

\* resolve_user(session, ref)
resolve_user(ref) ==
    IF UserByPk(ref) # <<>> THEN UserByPk(ref)
    ELSE IF StrIsDigit(ref) /\ UserByPk(StrOfInt(ref)) # <<>>
         THEN UserByPk(StrOfInt(ref))
    ELSE FirstUser({i \in Rows : \/ users[i].id = ref
                                 \/ users[i].username = ref
                                 \/ users[i].email = ref})

\* the table after the row with primary key id is replaced by row
PutUser(id, row) ==
    [i \in 1..Len(users) |-> IF users[i].id = id THEN row ELSE users[i]]

\* the table after the row with primary key id is deleted
DropUser(id) ==
    LET keep == {i \in Rows : users[i].id # id}
        Nth(n) == CHOOSE i \in keep : Cardinality({j \in keep : j < i}) = n - 1
    IN  [n \in 1..Cardinality(keep) |-> users[Nth(n)]]

\* a failed request: the code, and the table as it was
Refuse(code) == [code |-> code, users |-> users]

\* the uniqueness test of create_user without the email half (a variant)
create_user_taken_username_only(username, email) ==
    IF FirstUser({i \in Rows : users[i].username = username}) # <<>>
    THEN "username"
    ELSE "none"

\* create_user: the two uniqueness checks, in order
create_user_taken(username, email) ==
    IF FirstUser({i \in Rows : users[i].username = username}) # <<>>
    THEN "username"
    ELSE IF FirstUser({i \in Rows : users[i].email = email}) # <<>>
    THEN "email"
    ELSE "none"

\* POST /users by client c; newid is what short_uuid() returns for the row
create_user(c, username, email, role, password, newid) ==
    LET current == get_current_user(tokens[c])
        first_exists == Len(users) > 0
        is_bootstrap == ~first_exists
        role_value == IF is_bootstrap THEN "admin" ELSE role
        row == [id |-> newid, username |-> username, email |-> email,
                role |-> role_value,
                password_hash |-> get_password_hash(password)]
    IN  IF current = <<>> THEN Refuse(401)
        ELSE IF ~is_bootstrap /\ ~is_admin(current[1]) THEN Refuse(403)
        ELSE IF create_user_taken(username, email) # "none" THEN Refuse(400)
        ELSE IF UserByPk(newid) # <<>> THEN Refuse(500)
        ELSE [code |-> 201, users |-> Append(users, row)]

\* GET /users/me by client c
get_me(c) ==
    IF get_current_user(tokens[c]) = <<>> THEN Refuse(401) ELSE Refuse(200)

\* PATCH /users/me by client c; email is <<>> when the body has none
update_me(c, email) ==
    LET user == get_current_user(tokens[c])
    IN  IF user = <<>> THEN Refuse(401)
        ELSE IF email # <<>> /\ email[1] # <<>> /\ email[1] # user[1].email
        THEN LET exists ==
                      FirstUser({i \in Rows : users[i].email = email[1]})
             IN  IF exists # <<>> /\ exists[1].id # user[1].id
                 THEN Refuse(400)
                 ELSE [code |-> 200,
                       users |-> PutUser(user[1].id,
                                   [user[1] EXCEPT !.email = email[1]])]
        ELSE Refuse(200)

\* PATCH /users/me/password by client c
change_my_password(c, current_password, new_password) ==
    LET user == get_current_user(tokens[c])
    IN  IF user = <<>> THEN Refuse(401)
        ELSE IF new_password = <<>> THEN Refuse(400)
        ELSE IF current_password = <<>> THEN Refuse(400)
        ELSE IF HashUnknown(user[1].password_hash) THEN Refuse(500)
        ELSE IF ~verify_password(current_password[1], user[1].password_hash)
        THEN Refuse(400)
        ELSE [code |-> 200,
              users |-> PutUser(user[1].id,
                          [user[1] EXCEPT !.password_hash =
                                      get_password_hash(new_password[1])])]

\* PATCH|PUT /users/{user_ref} by client c; data holds the fields the body
\* sets, each <<>> when unset
update_user(c, user_ref, data) ==
    LET current == get_current_user(tokens[c])
        user == resolve_user(user_ref)
        dupname == data.username # <<>> /\
                   FirstUser({i \in Rows : users[i].username = data.username[1]
                                 /\ users[i].id # user[1].id}) # <<>>
        dupmail == data.email # <<>> /\
                   FirstUser({i \in Rows : users[i].email = data.email[1]
                                 /\ users[i].id # user[1].id}) # <<>>
        row == [id |-> user[1].id,
                username |-> IF data.username # <<>> THEN data.username[1]
                             ELSE user[1].username,
                email |-> IF data.email # <<>> THEN data.email[1]
                          ELSE user[1].email,
                role |-> IF data.role # <<>> THEN data.role[1]
                         ELSE user[1].role,
                password_hash |->
                    IF data.password # <<>>
                    THEN get_password_hash(data.password[1])
                    ELSE user[1].password_hash]
    IN  IF current = <<>> THEN Refuse(401)
        ELSE IF ~is_admin(current[1]) THEN Refuse(403)
        ELSE IF user = <<>> THEN Refuse(404)
        ELSE IF dupname THEN Refuse(400)
        ELSE IF dupmail THEN Refuse(400)
        ELSE [code |-> 200, users |-> PutUser(user[1].id, row)]

\* a failed request that may write both tables: the code, and the tables
\* as they were
RefuseBoth(code) == [code |-> code, users |-> users, tasks |-> tasks]

\* session.delete(user) with the relationship User.tasks, which has no
\* delete cascade: at the flush the tasks of the user are de-associated,
\* their assignee_id set to NULL
Deassociate(id) ==
    {IF t.assignee_id = <<id>> THEN [t EXCEPT !.assignee_id = <<>>] ELSE t :
       t \in tasks}

\* delete_user that deletes the user's tasks with the user (a variant)
delete_user_cascade(c, user_ref) ==
    LET current == get_current_user(tokens[c])
        user == resolve_user(user_ref)
    IN  IF current = <<>> THEN RefuseBoth(401)
        ELSE IF ~is_admin(current[1]) THEN RefuseBoth(403)
        ELSE IF user = <<>> THEN RefuseBoth(404)
        ELSE [code |-> 204, users |-> DropUser(user[1].id),
              tasks |-> {t \in tasks : t.assignee_id # <<user[1].id>>}]

\* DELETE /users/{user_ref} by client c: the status code and the two
\* tables after the request
delete_user(c, user_ref) ==
    LET current == get_current_user(tokens[c])
        user == resolve_user(user_ref)
    IN  IF current = <<>> THEN RefuseBoth(401)
        ELSE IF ~is_admin(current[1]) THEN RefuseBoth(403)
        ELSE IF user = <<>> THEN RefuseBoth(404)
        ELSE [code |-> 204, users |-> DropUser(user[1].id),
              tasks |-> Deassociate(user[1].id)]

(***************************************************************************)
(* scripts/seed_admin.py, reset_password.py, promote_user.py: run by the   *)
(* operator against the database, outside HTTP                             *)
(***************************************************************************)
\* seed_admin.main(username, email, password): User(...) is given the
\* keyword hashed_password, which is no column, so password_hash stays None
seed_admin(username, email, password, newid) ==
    LET existing == FirstUser({i \in Rows : users[i].username = username})
        row == [id |-> newid, username |-> username, email |-> email,
                role |-> "admin", password_hash |-> <<>>]
    IN  IF existing # <<>> \/ UserByPk(newid) # <<>> THEN Refuse(0)
        ELSE [code |-> 0, users |-> Append(users, row)]

\* reset_password.main(identifier, new_password)
reset_password(identifier, new_password) ==
    LET u == get_user_by_identifier(identifier)
    IN  IF u = <<>> THEN Refuse(0)
        ELSE [code |-> 0,
              users |-> PutUser(u[1].id,
                          [u[1] EXCEPT !.password_hash =
                                          get_password_hash(new_password)])]

\* promote_user.main(identifier, new_password)
promote_user(identifier, new_password) ==
    LET u == get_user_by_identifier(identifier)
    IN  IF u = <<>> THEN Refuse(0)
        ELSE [code |-> 0,
              users |-> PutUser(u[1].id,
                          [u[1] EXCEPT !.role = "admin",
                                       !.password_hash =
                                          get_password_hash(new_password)])]

(***************************************************************************)
(* Steps: a request is served, a script is run, or time passes             *)
(***************************************************************************)
\* the clock step of the token specification: half a token lifetime
HalfTtl == ACCESS_TOKEN_EXPIRE_MINUTES \div 2

\* minutes in a day
Day == 24 * 60

\* a request or script on the directory was served with result r
ServeUsers(op, r) ==
    /\ users' = r.users
    /\ resp' = [op |-> op, code |-> r.code]
    /\ UNCHANGED <<tasks, tokens, now, sessions>>

\* a delete_user request was served with result r
ServeDelete(r) ==
    /\ users' = r.users
    /\ tasks' = r.tasks
    /\ resp' = [op |-> "delete_user", code |-> r.code]
    /\ UNCHANGED <<tokens, now, sessions>>

\* a login was served with result r
ServeLogin(r) ==
    /\ tokens' = r.tokens
    /\ resp' = [op |-> "login", code |-> r.code]
    /\ UNCHANGED <<users, tasks, now, sessions>>

\* time passes by step minutes, up to the instant last
Tick(step, last) ==
    /\ now + step <= last
    /\ now' = now + step
    /\ resp' = [op |-> "tick", code |-> 0]
    /\ UNCHANGED <<users, tasks, tokens, sessions>>

(***************************************************************************)
(* Spec: the user directory over HTTP and the operator scripts             *)
(***************************************************************************)
Some(S) == {<<x>> : x \in S}

Opt(S) == {<<>>} \cup Some(S)

\* bodies of PATCH /users/{ref}: one field set, or role and password
UserUpdates ==
    LET none == [username |-> <<>>, email |-> <<>>, role |-> <<>>,
                 password |-> <<>>]
    IN  {[none EXCEPT !.username = <<u>>] : u \in Usernames}
        \cup {[none EXCEPT !.email = <<e>>] : e \in Emails}
        \cup {[none EXCEPT !.role = <<r>>] : r \in Role}
        \cup {[none EXCEPT !.password = <<p>>, !.role = <<"manager">>] :
                 p \in {"pw1"}}

\* the references PATCH and DELETE /users/{ref} are tried with
UserRefs == UserIds \cup {U_bob, E_alice}

\* the identifiers logins are tried with
LoginIdents == Usernames \cup {E_alice}

SeedAdmin ==
    \E u \in {U_alice}, e \in Emails, id \in UserIds :
        /\ Len(users) < MaxUsers
        /\ ServeUsers("seed_admin", seed_admin(u, e, "pw1", id))

ResetPassword ==
    \E u \in {U_alice, E_bob} :
        ServeUsers("reset_password", reset_password(u, "pw1"))

Login ==
    \E c \in Clients, u \in LoginIdents, p \in Passwords :
        ServeLogin(login(c, u, p))

CreateUser ==
    \E c \in Clients, u \in Usernames, e \in Emails, r \in Role,
       id \in UserIds :
        /\ Len(users) < MaxUsers
        /\ ServeUsers("create_user", create_user(c, u, e, r, "pw1", id))

UpdateMe ==
    \E c \in Clients, e \in Opt(Emails) :
        ServeUsers("update_me", update_me(c, e))

UpdateUser ==
    \E c \in Clients, ref \in UserRefs, d \in UserUpdates :
        ServeUsers("update_user", update_user(c, ref, d))

DeleteUser ==
    \E c \in Clients, ref \in UserRefs : ServeDelete(delete_user(c, ref))

Next ==
    \/ SeedAdmin
    \/ ResetPassword
    \/ Login
    \/ CreateUser
    \/ UpdateMe
    \/ UpdateUser
    \/ DeleteUser

Spec == Init /\ [][Next]_vars

(***************************************************************************)
(* Claims about the user directory                                         *)
(***************************************************************************)
\* the rows of a users table have pairwise different usernames and emails
Unique(table) ==
    \A i, j \in 1..Len(table) :
        i # j => /\ table[i].username # table[j].username
                 /\ table[i].email # table[j].email

ClientError == 400..499

\* C2: bootstrap rule.  A create-user request served on an empty directory
\* succeeds whoever the caller is and stores the user with role admin
\* whatever role was asked for; on a non-empty directory it succeeds only
\* for a caller whose role is admin and stores the requested role.
C2_BootstrapRule ==
    [][resp'.op = "create_user" =>
         /\ users = <<>> =>
              /\ resp'.code = 201
              /\ Len(users') = 1
              /\ users'[1].role = "admin"
         /\ (users # <<>> /\ resp'.code = 201) =>
              \E c \in Clients, u \in Usernames, e \in Emails, r \in Role,
                 id \in UserIds :
                /\ users' = create_user(c, u, e, r, "pw1", id).users
                /\ get_current_user(tokens[c])[1].role = "admin"
                /\ users'[Len(users')].role = r]_vars

\* C5: from a directory whose usernames and emails are pairwise different,
\* create_user, update_user, update_me and delete_user, each served
\* atomically, lead to such a directory again, and a create or update that
\* names a username or email held by another row is answered with a client
\* error and changes nothing.
C5_UniqueIdentifiers ==
    Unique(users) =>
       /\ \A c \in Clients, u \in Usernames, e \in Emails, r \in Role,
             id \in UserIds :
            LET res == create_user(c, u, e, r, "pw1", id)
            IN  /\ Unique(res.users)
                /\ (\E i \in 1..Len(users) :
                       users[i].username = u \/ users[i].email = e)
                   => res.code \in ClientError /\ res.users = users
       /\ \A c \in Clients, ref \in UserRefs, d \in UserUpdates :
            LET res == update_user(c, ref, d)
            IN  /\ Unique(res.users)
                /\ (/\ resolve_user(ref) # <<>>
                    /\ \E i \in 1..Len(users) :
                         /\ users[i].id # resolve_user(ref)[1].id
                         /\ \/ d.username = <<users[i].username>>
                            \/ d.email = <<users[i].email>>)
                   => res.code \in ClientError /\ res.users = users
       /\ \A c \in Clients, e \in Opt(Emails) :
            LET res == update_me(c, e)
            IN  /\ Unique(res.users)
                /\ (/\ get_current_user(tokens[c]) # <<>>
                    /\ \E i \in 1..Len(users) :
                         /\ users[i].id # get_current_user(tokens[c])[1].id
                         /\ <<users[i].email>> = e)
                   => res.code \in ClientError /\ res.users = users
       /\ \A c \in Clients, ref \in UserRefs :
            Unique(delete_user(c, ref).users)

\* C5 witness: with two users of different names and emails in the
\* directory, an update_user naming a taken username or email was refused
C5_Witness ==
    /\ Len(users) = 2
    /\ Unique(users)
    /\ resp.op = "update_user"
    /\ resp.code = 400

\* the identifiers and passwords failed logins are tried with
LoginAttempts == (LoginIdents \cup {E_bob, U_eve}) \X (Passwords \cup {"nope"})

\* the attempt fails because no user matches the identifier
UnknownIdentifier(a) ==
    \A i \in Rows : users[i].username # a[1] /\ users[i].email # a[1]

\* the attempt fails because the user the identifier finds has no stored
\* hash, or a hash that is not the hash of the password
WrongPassword(a) ==
    /\ ~UnknownIdentifier(a)
    /\ LET h == get_user_by_identifier(a[1])[1].password_hash
       IN  h = <<>> \/ h # get_password_hash(a[2])

\* C12: a login that fails because no user matches the identifier and a
\* login that fails because the password does not match the stored hash of
\* an existing user (or the user has no stored hash) get the same response,
\* status code and body, and neither issues a token.
C12_LoginFailureUniform ==
    \A c \in Clients : \A a, b \in LoginAttempts :
        UnknownIdentifier(a) /\ WrongPassword(b) =>
            LET ra == login(c, a[1], a[2])
                rb == login(c, b[1], b[2])
            IN  /\ ra.code = rb.code
                /\ ra.body = rb.body
                /\ ra.code # 200
                /\ ra.tokens = tokens
                /\ rb.tokens = tokens

\* C12 witness: a login was just refused while the directory holds a user
\* without a stored hash and a user with one, so that an attempt can fail in
\* each of the three ways
C12_Witness ==
    /\ resp.op = "login"
    /\ resp.code = 400
    /\ \E i \in Rows : users[i].password_hash = <<>>
    /\ \E i \in Rows : users[i].password_hash # <<>>
    /\ \E a \in LoginAttempts : UnknownIdentifier(a)
    /\ \E b \in LoginAttempts :
          WrongPassword(b)
          /\ get_user_by_identifier(b[1])[1].password_hash # <<>>

\* C20: a token authenticates only the user it was minted for: a request
\* bearing a valid token minted at the login of user U is rejected or served
\* with U as the current user, never with another user, also after U was
\* renamed or deleted and U's old username was given to another user.
C20_TokenBindsUser ==
    \A c \in Clients :
        tokens[c] # <<>> /\ get_current_user(tokens[c]) # <<>> =>
            get_current_user(tokens[c])[1].id = tokens[c][1].uid

\* some user of table before has another role in table after
RoleChanged(before, after) ==
    \E i \in DOMAIN before, j \in DOMAIN after :
        before[i].id = after[j].id /\ before[i].role # after[j].role

\* the clients whose token is accepted for a user that is no admin
Lesser ==
    {c \in Clients : /\ get_current_user(tokens[c]) # <<>>
                     /\ get_current_user(tokens[c])[1].role # "admin"}

\* C14: over HTTP the role of an existing user changes only by an
\* update_user request whose authenticated principal holds role admin at
\* that time; create_user, update_user and delete_user issued by a manager or
\* employee are refused as forbidden (403) and change nothing; update_me and
\* change_my_password never change a role.
C14_RolesChangeByAdminOnly ==
    \A c \in Clients :
        LET current == get_current_user(tokens[c])
        IN  /\ \A ref \in UserRefs, d \in UserUpdates :
                  LET r == update_user(c, ref, d)
                  IN  /\ RoleChanged(users, r.users) =>
                            /\ current # <<>>
                            /\ current[1].role = "admin"
                            /\ r.code = 200
                      /\ c \in Lesser => r = Refuse(403)
            /\ \A ref \in UserRefs :
                  c \in Lesser => delete_user(c, ref) = RefuseBoth(403)
            /\ \A u \in {U_bob, U_eve}, e \in {E_bob, E_eve},
                  ro \in Role, id \in UserIds :
                  c \in Lesser =>
                      create_user(c, u, e, ro, "pw1", id) = Refuse(403)
            /\ \A e \in Opt(Emails \cup {E_eve}) :
                  ~RoleChanged(users, update_me(c, e).users)
            /\ \A cur \in Opt(Passwords), new \in Opt(Passwords) :
                  ~RoleChanged(users, change_my_password(c, cur, new).users)

\* C14 witness: a manager or employee holding an accepted token was just
\* refused an update_user with 403, while an admin holding an accepted token
\* has a request that changes a role
C14_Witness ==
    /\ resp.op = "update_user"
    /\ resp.code = 403
    /\ Lesser # {}
    /\ \E c \in Clients \ Lesser, ref \in UserRefs, d \in UserUpdates :
          RoleChanged(users, update_user(c, ref, d).users)

(***************************************************************************)
(* routers/tasks.py                                                        *)
(* A row of tasks is [id, title, description, status, priority, progress,  *)
(* due_date, assignee_id, created_at, updated_at].  description is <<>> or *)
(* <<text>>, due_date is <<>> or <<day number>>, assignee_id is <<>> or    *)
(* <<user id>>, the timestamps are in minutes.                             *)
(***************************************************************************)
TaskIds == {IdPool[i] : i \in 1..MaxTasks}

\* session.get(Task, pk)
TaskByPk(pk) ==
    IF \E t \in tasks : t.id = pk
    THEN <<CHOOSE t \in tasks : t.id = pk>>
    ELSE <<>>

\* resolve_task(session, task_key)
resolve_task(task_key) ==
    IF StrIsDigit(task_key) /\ TaskByPk(StrOfInt(task_key)) # <<>>
    THEN TaskByPk(StrOfInt(task_key))
    ELSE TaskByPk(task_key)

\* parse_due_date(val): val is <<>> (absent or null), <<d>> for text that is
\* a date of day d >= 0, or <<-1>> for text that is no date
parse_due_date(val) ==
    IF val = <<>> THEN <<>>
    ELSE IF val[1] < 0 THEN <<>>
    ELSE val

\* TaskRead.model_validate(t) raises unless progress is within 0..100
to_read_ok(t) == t.progress >= 0 /\ t.progress <= 100

\* max(0, min(100, pc))
Clamp(pc) == IF pc < 0 THEN 0 ELSE IF pc > 100 THEN 100 ELSE pc

\* the table after row t replaces the row with its id
PutTask(t) == {x \in tasks : x.id # t.id} \cup {t}

\* a failed request: the code, and the table as it was
RefuseTask(code) == [code |-> code, tasks |-> tasks]

\* POST /tasks.  The body is validated as TaskCreate first: status and
\* priority must be enum values (default not_started and medium), progress
\* must be within 0..100; then data = payload.model_dump() holds enum
\* members, and canon_status / canon_priority are given their str().
create_task(title, description, status, priority, progress, due_date, assignee_id, newid) ==
    LET st_member == IF status = <<>> THEN S_not_started ELSE status[1]
        pr_member == IF priority = <<>> THEN P_medium ELSE priority[1]
        s == canon_status(<<StrOfTaskStatus(st_member)>>)
        p == canon_priority(<<StrOfTaskPriority(pr_member)>>)
        t == [id |-> newid, title |-> title, description |-> description,
              status |-> IF s # <<>> THEN s[1] ELSE S_not_started,
              priority |-> IF p # <<>> THEN p[1] ELSE P_medium,
              progress |-> progress,
              due_date |-> parse_due_date(due_date),
              assignee_id |-> assignee_id,
              created_at |-> now, updated_at |-> now]
    IN  IF status # <<>> /\ status[1] \notin TaskStatus THEN RefuseTask(422)
        ELSE IF priority # <<>> /\ priority[1] \notin TaskPriority
        THEN RefuseTask(422)
        ELSE IF progress < 0 \/ progress > 100 THEN RefuseTask(422)
        ELSE IF TaskByPk(newid) # <<>> THEN RefuseTask(500)
        ELSE [code |-> 201, tasks |-> tasks \cup {t}]

\* PUT /tasks/{task_key}; data holds the keys of the raw body, each <<>>
\* when absent: status, priority, progress, percent_complete, due_date,
\* title, description, assignee_id
update_task(task_key, data) ==
    LET found == resolve_task(task_key)
        t == found[1]
        s == canon_status(data.status)
        p == canon_priority(data.priority)
        parsed == parse_due_date(data.due_date)
        progress == IF data.percent_complete # <<>>
                    THEN <<Clamp(data.percent_complete[1])>>
                    ELSE data.progress
        t2 == [t EXCEPT
                 !.status = IF s # <<>> THEN s[1] ELSE @,
                 !.priority = IF p # <<>> THEN p[1] ELSE @,
                 !.progress = IF progress # <<>> THEN progress[1] ELSE @,
                 !.due_date = IF parsed # <<>> THEN parsed ELSE @,
                 !.title = IF data.title # <<>> THEN data.title[1] ELSE @,
                 !.description = IF data.description # <<>>
                                 THEN data.description ELSE @,
                 !.assignee_id = IF data.assignee_id # <<>>
                                 THEN data.assignee_id ELSE @,
                 !.updated_at = now]
    IN  IF found = <<>> THEN RefuseTask(404)
        ELSE [code |-> IF to_read_ok(t2) THEN 200 ELSE 500,
              tasks |-> PutTask(t2)]

\* DELETE /tasks/{task_key}
delete_task(task_key) ==
    LET found == resolve_task(task_key)
    IN  IF found = <<>> THEN RefuseTask(404)
        ELSE [code |-> 204, tasks |-> tasks \ {found[1]}]

\* PUT /tasks/{task_key}/status; status is <<>> when the body has no status
update_status(task_key, status) ==
    LET found == resolve_task(task_key)
        t == found[1]
        new_status == canon_status(status)
        t2 == [t EXCEPT !.status = new_status[1], !.updated_at = now]
    IN  IF found = <<>> THEN RefuseTask(404)
        ELSE IF new_status = <<>> THEN RefuseTask(400)
        ELSE [code |-> IF to_read_ok(t2) THEN 200 ELSE 500,
              tasks |-> PutTask(t2)]

\* a request on the tasks table was served with result r
ServeTasks(op, r) ==
    /\ tasks' = r.tasks
    /\ resp' = [op |-> op, code |-> r.code]
    /\ UNCHANGED <<users, tokens, now, sessions>>

(***************************************************************************)
(* SpecTasks: the task endpoints, which take no bearer token, served with  *)
(* display labels, synonyms, blanks and unknown words                      *)
(***************************************************************************)
In_ToDo         == <<"T","o"," ","D","o">>
In_InProgress   == <<" ","I","n"," ","P","r","o","g","r","e","s","s"," ">>
In_COMPLETED    == <<"C","O","M","P","L","E","T","E","D">>
In_ReSubmission == <<"R","e","-","S","u","b","m","i","s","s","i","o","n">>
In_ReSubmitted  == <<"R","e","-","S","u","b","m","i","t","t","e","d">>
In_Done         == <<"D","o","n","e">>
In_Blank        == <<" "," ">>
In_HIGH         == <<"H","I","G","H">>
In_Normal       == <<"N","o","r","m","a","l">>
In_Urgent       == <<"u","r","g","e","n","t">>
T_Ship          == <<"S","h","i","p">>

StatusInputs ==
    {In_ToDo, In_InProgress, In_COMPLETED, In_ReSubmission, In_ReSubmitted,
     In_Done, In_Blank}

PriorityInputs == {In_HIGH, In_Normal, In_Urgent, In_Blank}

ProgressInputs == {-1, 101}

PercentInputs == {-20, 250}

\* a raw PUT body with no key
NoKeys ==
    [status |-> <<>>, priority |-> <<>>, progress |-> <<>>,
     percent_complete |-> <<>>, due_date |-> <<>>, title |-> <<>>,
     description |-> <<>>, assignee_id |-> <<>>]

\* bodies of PUT /tasks/{key}: one key, or progress with percent_complete
TaskUpdates ==
    {[NoKeys EXCEPT !.status = <<x>>] : x \in StatusInputs}
    \cup {[NoKeys EXCEPT !.priority = <<x>>] : x \in PriorityInputs}
    \cup {[NoKeys EXCEPT !.progress = <<x>>] : x \in ProgressInputs}
    \cup {[NoKeys EXCEPT !.percent_complete = <<x>>] : x \in PercentInputs}
    \cup {[NoKeys EXCEPT !.progress = <<101>>, !.percent_complete = <<250>>]}

\* the keys single-task requests are tried with
TaskKeys == TaskIds \cup {<<"0","1","0","2","3","4">>}

CreateTaskT ==
    \E st \in Opt({S_completed, In_ToDo}), pr \in Opt({P_high, In_HIGH}),
       pg \in {0, 101}, id \in TaskIds :
        /\ Cardinality(tasks) < MaxTasks
        /\ ServeTasks("create_task",
                      create_task(T_Ship, <<>>, st, pr, pg, <<>>, <<>>,
                                  id))

UpdateTaskT ==
    \E k \in TaskKeys, d \in TaskUpdates :
        ServeTasks("update_task", update_task(k, d))

UpdateStatusT ==
    \E k \in TaskKeys, st \in Opt(StatusInputs) :
        ServeTasks("update_status", update_status(k, st))

DeleteTaskT ==
    \E k \in TaskKeys : ServeTasks("delete_task", delete_task(k))

NextTasks ==
    \/ CreateTaskT
    \/ UpdateTaskT
    \/ UpdateStatusT
    \/ DeleteTaskT

SpecTasks == Init /\ [][NextTasks]_vars

\* C3: every persisted task has progress within 0..100 (a request that
\* would set it outside the range being rejected, the task unchanged).
C3_ProgressInRange ==
    \A t \in tasks : t.progress >= 0 /\ t.progress <= 100

\* C4: every persisted task's status is one of not_started, in_progress,
\* completed, approved, rejected, resubmit and its priority one of low,
\* medium, high, critical, whatever strings the requests carried.
C4_CanonicalEnums ==
    \A t \in tasks :
        /\ t.status \in {S_not_started, S_in_progress, S_completed,
                         S_approved, S_rejected, S_resubmit}
        /\ t.priority \in {P_low, P_medium, P_high, P_critical}

\* C4 witness: display labels were normalised on their way to storage, and
\* a status that does not normalise was just refused
C4_Witness ==
    /\ \E t \in tasks : t.status = S_in_progress /\ t.priority = P_high
    /\ resp.op = "update_status"
    /\ resp.code = 400

\* C19: create_task persists the status and the priority the request
\* supplies: a task created with canonical status s and canonical priority
\* p is stored with status s and priority p; the defaults not_started and
\* medium apply only when the field is absent from the request.
C19_CreateKeepsEnums ==
    \A id \in TaskIds \ {t.id : t \in tasks} :
        \A s \in Opt(TaskStatus), p \in Opt(TaskPriority) :
            LET r == create_task(T_Ship, <<>>, s, p, 0, <<>>, <<>>, id)
                t == CHOOSE x \in r.tasks : x.id = id
            IN  /\ r.code = 201
                /\ t.status = IF s = <<>> THEN S_not_started ELSE s[1]
                /\ t.priority = IF p = <<>> THEN P_medium ELSE p[1]

\* str.upper() on one character
UpperChar(c) ==
    IF \E i \in 1..26 : LowerChars[i] = c
    THEN UpperChars[CHOOSE i \in 1..26 : LowerChars[i] = c]
    ELSE c

\* a word in lower case, in upper case and capitalised
LetterCases(s) ==
    {s, [i \in 1..Len(s) |-> UpperChar(s[i])],
     [i \in 1..Len(s) |-> IF i = 1 THEN UpperChar(s[i]) ELSE s[i]]}

\* the synonym table the status normaliser is specified with
SynonymTable ==
    { << <<"t","o"," ","d","o">>, S_not_started >>,
      << <<"t","o","d","o">>, S_not_started >>,
      << <<"i","n"," ","p","r","o","g","r","e","s","s">>, S_in_progress >>,
      << <<"r","e","-","s","u","b","m","i","s","s","i","o","n">>, S_resubmit >>,
      << <<"r","e"," ","s","u","b","m","i","s","s","i","o","n">>, S_resubmit >>,
      << <<"r","e","-","s","u","b","m","i","t","t","e","d">>, S_resubmit >> }
    \cup {<<s, s>> : s \in TaskStatus}

\* the status of task id after a request with result r
StatusAfter(r, id) == (CHOOSE x \in r.tasks : x.id = id).status

\* C11: the status normaliser maps, in any letter case, "to do" and "todo"
\* to not_started, "in progress" to in_progress, "re-submission",
\* "re submission" and "re-submitted" to resubmit and every canonical name
\* to itself; so a status change that carries one of these words stores the
\* status the table gives for it.
C11_StatusSynonyms ==
    \A t \in tasks : \A kv \in SynonymTable : \A word \in LetterCases(kv[1]) :
        /\ canon_status(<<word>>) = <<kv[2]>>
        /\ StatusAfter(update_status(t.id, <<word>>), t.id) = kv[2]

(***************************************************************************)
(* routers/tasks.py: the filtered, sorted and paginated queries            *)
(* The answer to a query is a record [code, items, page, size, total];     *)
(* items, page, size and total are the envelope when code is 200 and carry *)
(* nothing otherwise.  ORDER BY leaves the order of rows with equal keys   *)
(* open, so a query handler is an operator from the request to the set of  *)
(* answers it may give.                                                    *)
(***************************************************************************)
\* is_admin_or_manager that lets every role through (a variant)
is_admin_or_manager_anyone(user) == user.role \in Role

\* is_admin_or_manager(user)
is_admin_or_manager(user) == user.role \in {"admin", "manager"}

\* the text SQLite holds for a Date column: year-month-day
DateText(day) == <<day>>

\* the text bound for a datetime parameter: year-month-day, a space, and the
\* time of day
DateTimeText(t) == <<t \div Day, t % Day>>

\* a < b for two such texts: the first differing part decides, and a text
\* that is a proper prefix of the other is the smaller
RECURSIVE TextLess(_, _)
TextLess(a, b) ==
    IF b = <<>> THEN FALSE
    ELSE IF a = <<>> THEN TRUE
    ELSE IF Head(a) # Head(b) THEN Head(a) < Head(b)
    ELSE TextLess(Tail(a), Tail(b))

\* apply_common_filters, "if q:": title, description or id contains
\* q.strip(), case-insensitively (q without the wildcards % and _)
TextFilter(S, q) ==
    IF q = <<>> \/ q[1] = <<>> THEN S
    ELSE LET like == StrStrip(q[1])
         IN  {t \in S : \/ ILikeContains(t.title, like)
                        \/ /\ t.description # <<>>
                           /\ ILikeContains(t.description[1], like)
                        \/ ILikeContains(t.id, like)}

\* apply_common_filters, "if status_value:" with a value that normalises
StatusFilter(S, status_value) ==
    IF status_value = <<>> \/ status_value[1] = <<>> THEN S
    ELSE {t \in S : <<t.status>> = canon_status(status_value)}

\* apply_common_filters, "if overdue:"
OverdueFilter(S, overdue) ==
    IF ~overdue THEN S
    ELSE {t \in S : /\ t.due_date # <<>>
                    /\ TextLess(DateText(t.due_date[1]), DateTimeText(now))
                    /\ t.status \notin TERMINAL_STATUSES}

\* apply_common_filters, "if assignee_id is not None:"
AssigneeFilter(S, assignee_id) ==
    IF assignee_id = <<>> THEN S
    ELSE {t \in S : t.assignee_id = assignee_id}

\* apply_common_filters that takes a status it cannot normalise for no
\* status at all (a variant)
apply_common_filters_lenient(q, status_value, overdue, assignee_id) ==
    LET known == IF canon_status(status_value) = <<>> THEN <<>>
                 ELSE status_value
    IN  AssigneeFilter(
            OverdueFilter(StatusFilter(TextFilter(tasks, q), known), overdue),
            assignee_id)

\* apply_common_filters(select(Task), q, status_value, overdue, assignee_id):
\* the rows the statement selects
apply_common_filters(q, status_value, overdue, assignee_id) ==
    IF /\ status_value # <<>>
       /\ status_value[1] # <<>>
       /\ canon_status(status_value) = <<>>
    THEN {}
    ELSE AssigneeFilter(
             OverdueFilter(StatusFilter(TextFilter(tasks, q), status_value),
                           overdue),
             assignee_id)

K_updated_at == <<"u","p","d","a","t","e","d","_","a","t">>
K_created_at == <<"c","r","e","a","t","e","d","_","a","t">>
K_due_date   == <<"d","u","e","_","d","a","t","e">>
K_priority   == <<"p","r","i","o","r","i","t","y">>

\* parse_sort: colmap
colmap ==
    {<<K_updated_at, "updated_at">>, <<K_created_at, "created_at">>,
     <<K_due_date, "due_date">>, <<K_priority, "priority">>}

\* parse_sort(sort): the column and the direction
parse_sort(sort) ==
    LET key == StrStrip(IF sort = <<>> \/ sort[1] = <<>>
                        THEN <<"-">> \o K_updated_at ELSE sort[1])
        desc == key # <<>> /\ Head(key) = "-"
        field == IF desc THEN Tail(key) ELSE key
    IN  [col |-> DictGet(colmap, field, "updated_at"), desc |-> desc]

\* row a is before row b in ascending order of column col (NULL is smallest;
\* priority is compared as text)
ColLess(col, a, b) ==
    CASE col = "updated_at" -> a.updated_at < b.updated_at
      [] col = "created_at" -> a.created_at < b.created_at
      [] col = "due_date" ->
            IF b.due_date = <<>> THEN FALSE
            ELSE IF a.due_date = <<>> THEN TRUE
            ELSE a.due_date[1] < b.due_date[1]
      [] col = "priority" -> StrLess(a.priority, b.priority)

\* stmt.order_by(*parse_sort(sort)) over the rows S: every sequence of all of
\* S in which no row comes after a row it must precede
OrderBy(S, ord) ==
    {r \in [1..Cardinality(S) -> S] :
        /\ \A i, j \in 1..Cardinality(S) : i # j => r[i] # r[j]
        /\ \A i, j \in 1..Cardinality(S) :
             i < j => IF ord.desc THEN ~ColLess(ord.col, r[i], r[j])
                      ELSE ~ColLess(ord.col, r[j], r[i])}

\* paginate that skips page * size rows (a variant)
paginate_from_next_page(rows, page, size) ==
    LET offset == page * size
        n == IF Len(rows) <= offset THEN 0
             ELSE IF Len(rows) - offset < size THEN Len(rows) - offset
             ELSE size
    IN  [rows |-> [i \in 1..n |-> rows[offset + i]], total |-> Len(rows)]

\* paginate(session, stmt, page, size): COUNT(*) of the statement, and the
\* statement with OFFSET (page - 1) * size LIMIT size
paginate(rows, page, size) ==
    LET offset == (page - 1) * size
        n == IF Len(rows) <= offset THEN 0
             ELSE IF Len(rows) - offset < size THEN Len(rows) - offset
             ELSE size
    IN  [rows |-> [i \in 1..n |-> rows[offset + i]], total |-> Len(rows)]

\* a query that fails: the code, and no envelope
RefuseQuery(code) ==
    [code |-> code, items |-> <<>>, page |-> 0, size |-> 0, total |-> 0]

\* the tail of list_my_tasks and search_tasks: order, paginate, and build
\* the envelope with to_read of each row of the page
Envelope(matching, sort, page, size) ==
    {LET pg == paginate(rows, page, size)
     IN  IF \A i \in 1..Len(pg.rows) : to_read_ok(pg.rows[i])
         THEN [code |-> 200, items |-> pg.rows, page |-> page,
               size |-> size, total |-> pg.total]
         ELSE RefuseQuery(500) :
     rows \in OrderBy(matching, parse_sort(sort))}

\* GET /tasks/my by client c
list_my_tasks(c, q, status_value, overdue, page, size, sort) ==
    LET current_user == get_current_user(tokens[c])
    IN  IF current_user = <<>> THEN {RefuseQuery(401)}
        ELSE IF page < 1 \/ size < 1 \/ size > 100 THEN {RefuseQuery(422)}
        ELSE Envelope(apply_common_filters(q, status_value, overdue,
                                           <<current_user[1].id>>),
                      sort, page, size)

A_me == <<"m","e">>

\* GET /tasks/search by client c
search_tasks(c, q, status_value, overdue, assignee, page, size, sort) ==
    LET current_user == get_current_user(tokens[c])
        asked == IF assignee = <<A_me>> THEN <<current_user[1].id>>
                 ELSE IF assignee # <<>> /\ StrIsDigit(assignee[1])
                      THEN <<StrOfInt(assignee[1])>>
                 ELSE <<>>
        assignee_id == IF ~is_admin_or_manager(current_user[1])
                       THEN <<current_user[1].id>> ELSE asked
    IN  IF current_user = <<>> THEN {RefuseQuery(401)}
        ELSE IF page < 1 \/ size < 1 \/ size > 100 THEN {RefuseQuery(422)}
        ELSE Envelope(apply_common_filters(q, status_value, overdue,
                                           assignee_id),
                      sort, page, size)

\* the query req by client c was served with answer r
ServeQuery(op, c, req, r) ==
    /\ resp' = [op |-> op, code |-> r.code, who |-> c, req |-> req,
                items |-> [i \in 1..Len(r.items) |-> r.items[i].id],
                total |-> r.total]
    /\ UNCHANGED <<users, tasks, tokens, now, sessions>>

(***************************************************************************)
(* SpecQuery: an admin (alice, seeded by script) and a second user (bob,   *)
(* created as employee or manager) hold tokens, tasks are created for      *)
(* either, for nobody, and updated, and both query /tasks/my and           *)
(* /tasks/search                                                           *)
(***************************************************************************)
A_all == <<"a","l","l">>

\* values of the assignee parameter: absent, 'me', a user's id, another word
AssigneeInputs == {<<>>, <<A_me>>, <<IdPool[1]>>, <<A_all>>}

\* values of the sort parameter: absent, a key, a negated key, an unknown key
SortInputs ==
    {<<>>, <<K_created_at>>, <<<<"-">> \o K_due_date>>, <<K_priority>>,
     <<<<"-">> \o A_all>>}

\* values of the status parameter that do not normalise
BadStatusInputs == {<<In_Done>>, <<In_Blank>>, <<In_ReSubmitted>>}

\* values of q: absent, and a word in another case than the title's
QInputs == {<<>>, <<<<"s","H","i">>>>}

\* the user client c logs in as
Holder(c) == IF c = 1 THEN U_alice ELSE U_bob

\* a request of /tasks/my or /tasks/search
Request(q, status, overdue, assignee, page, size, sort) ==
    [q |-> q, status |-> status, overdue |-> overdue, assignee |-> assignee,
     page |-> page, size |-> size, sort |-> sort]

\* the requests the two endpoints are served with
Requests ==
    {Request(<<>>, <<>>, FALSE, <<IdPool[1]>>, 1, 100, <<>>),
     Request(<<>>, <<In_Done>>, FALSE, <<>>, 1, 100, <<>>),
     Request(<<>>, <<>>, FALSE, <<>>, 2, 1, <<<<"-">> \o K_due_date>>),
     Request(<<>>, <<>>, FALSE, <<>>, 0, 1, <<>>)}

SeedAdminQ ==
    ServeUsers("seed_admin", seed_admin(U_alice, E_alice, "pw1", IdPool[1]))

ResetPasswordQ ==
    ServeUsers("reset_password", reset_password(U_alice, "pw1"))

LoginQ ==
    \E c \in Clients : ServeLogin(login(c, Holder(c), "pw1"))

CreateUserQ ==
    \E r \in {"employee", "manager"} :
        /\ Len(users) < MaxUsers
        /\ ServeUsers("create_user",
                      create_user(1, U_bob, E_bob, r, "pw1", IdPool[2]))

CreateTaskQ ==
    \E a \in Opt({IdPool[1], IdPool[2]}), due \in Opt({0}), id \in TaskIds :
        /\ Cardinality(tasks) < MaxTasks
        /\ ServeTasks("create_task",
                      create_task(T_Ship, <<>>, <<>>, <<>>, 0, due, a, id))

UpdateTaskQ ==
    \E k \in TaskIds :
        ServeTasks("update_task",
                   update_task(k, [NoKeys EXCEPT !.progress = <<101>>]))

MyTasksQ ==
    \E c \in Clients, req \in {x \in Requests : x.assignee = <<>>} :
        \E r \in list_my_tasks(c, req.q, req.status, req.overdue, req.page,
                               req.size, req.sort) :
            ServeQuery("list_my_tasks", c, req, r)

SearchTasksQ ==
    \E c \in Clients, req \in Requests :
        \E r \in search_tasks(c, req.q, req.status, req.overdue,
                              req.assignee, req.page, req.size, req.sort) :
            ServeQuery("search_tasks", c, req, r)

NextQuery ==
    \/ SeedAdminQ
    \/ ResetPasswordQ
    \/ LoginQ
    \/ CreateUserQ
    \/ CreateTaskQ
    \/ UpdateTaskQ
    \/ MyTasksQ
    \/ SearchTasksQ

SpecQuery == Init /\ [][NextQuery]_vars

(***************************************************************************)
(* Claims about the queries                                                *)
(***************************************************************************)
\* the page numbers and sizes queries are examined with
PageInputs == {1, 2, 3}

SizeInputs == {1, 2, 100}

\* the clients whose token is accepted now
Accepted == {c \in Clients : get_current_user(tokens[c]) # <<>>}

\* the id of the user client c is authenticated as
Me(c) == get_current_user(tokens[c])[1].id

\* C1: a /tasks/search request by a principal whose role is neither admin
\* nor manager, whatever the assignee parameter (absent, 'me', another
\* user's id, another word) and the other filters, returns only tasks
\* assigned to that principal, none assigned to another user or to nobody,
\* and its total is the number of the caller's own tasks that match the
\* other filters.
C1_SearchVisibility ==
    \A c \in Accepted :
        get_current_user(tokens[c])[1].role \notin {"admin", "manager"} =>
            \A a \in AssigneeInputs, q \in QInputs,
               st \in {<<>>, <<In_COMPLETED>>}, od \in BOOLEAN :
                \A r \in search_tasks(c, q, st, od, a, 1, 100, <<>>) :
                    /\ \A i \in 1..Len(r.items) :
                         r.items[i].assignee_id = <<Me(c)>>
                    /\ r.code = 200 =>
                         r.total =
                           Cardinality(
                             {t \in apply_common_filters(q, st, od, <<>>) :
                                 t.assignee_id = <<Me(c)>>})

\* C1 witness: an employee asked /tasks/search for the tasks of another
\* user, who has a task, and was answered with its own single task
C1_Witness ==
    /\ resp.op = "search_tasks"
    /\ resp.code = 200
    /\ resp.req.assignee = <<IdPool[1]>>
    /\ resp.who \in Accepted
    /\ get_current_user(tokens[resp.who])[1].role = "employee"
    /\ Me(resp.who) # IdPool[1]
    /\ \E t \in tasks : t.assignee_id = <<IdPool[1]>>
    /\ resp.total = 1
    /\ \E t \in tasks : t.id = resp.items[1] /\ t.assignee_id = <<Me(resp.who)>>

\* C6: a /tasks/my or /tasks/search request of an authenticated caller whose
\* status parameter is a non-empty string that does not normalise is
\* answered 200 with no items and total 0, whatever the other filters and
\* the tasks are: never an error, never rows as if no status were given.
C6_BadStatusIsEmpty ==
    \A c \in Accepted, st \in BadStatusInputs, q \in QInputs,
       od \in BOOLEAN :
        /\ \A r \in list_my_tasks(c, q, st, od, 1, 100, <<>>) :
             r.code = 200 /\ r.items = <<>> /\ r.total = 0
        /\ \A a \in AssigneeInputs :
             \A r \in search_tasks(c, q, st, od, a, 1, 100, <<>>) :
                 r.code = 200 /\ r.items = <<>> /\ r.total = 0

\* C6 witness: a caller with a task of its own was answered 200 with total 0
\* on /tasks/my with status "Done"
C6_Witness ==
    /\ resp.op = "list_my_tasks"
    /\ resp.req.status = <<In_Done>>
    /\ resp.code = 200
    /\ resp.total = 0
    /\ resp.items = <<>>
    /\ resp.who \in Accepted
    /\ \E t \in tasks : t.assignee_id = <<Me(resp.who)>>

\* the part of the sequence rows that page p of size s shows
PageOf(rows, p, s) ==
    SubSeq(rows, (p - 1) * s + 1,
           IF p * s < Len(rows) THEN p * s ELSE Len(rows))

\* answer r is the envelope of page p, size s of the rows M in order sort
IsPage(r, M, p, s, sort) ==
    /\ r.code \in {200, 500}
    /\ r.code = 500 => \E t \in M : ~to_read_ok(t)
    /\ r.code = 200 =>
         /\ r.page = p
         /\ r.size = s
         /\ r.total = Cardinality(M)
         /\ (p - 1) * s >= Cardinality(M) => r.items = <<>>
         /\ \E rows \in OrderBy(M, parse_sort(sort)) :
              r.items = PageOf(rows, p, s)

\* C8: for every page p >= 1 and size s in 1..100, the envelope of /tasks/my
\* and of /tasks/search has total = the number N of rows matching the
\* filters, whatever p and s, and items = rows (p-1)*s+1 .. min(p*s, N) of
\* the sorted matching rows, none when (p-1)*s >= N; page and size echo the
\* request.
C8_PaginationEnvelope ==
    \A c \in Accepted, p \in PageInputs, s \in SizeInputs,
       sort \in SortInputs :
        /\ \A r \in list_my_tasks(c, <<>>, <<>>, FALSE, p, s, sort) :
             IsPage(r, {t \in tasks : t.assignee_id = <<Me(c)>>}, p, s, sort)
        /\ \A r \in search_tasks(c, <<>>, <<>>, FALSE, <<>>, p, s, sort) :
             IsPage(r,
                    IF get_current_user(tokens[c])[1].role = "employee"
                    THEN {t \in tasks : t.assignee_id = <<Me(c)>>}
                    ELSE tasks,
                    p, s, sort)

\* C8 witness: page 2 of size 1 of two matching rows, latest due date
\* first, was answered with total 2 and the row without due date
C8_Witness ==
    /\ resp.op = "search_tasks"
    /\ resp.code = 200
    /\ resp.req.page = 2
    /\ resp.req.size = 1
    /\ resp.total = 2
    /\ Len(resp.items) = 1
    /\ \E t, u \in tasks :
         /\ t.id = resp.items[1]
         /\ t.due_date = <<>>
         /\ u.due_date # <<>>

(***************************************************************************)
(* SpecOverdue: the seeded admin holds a token, a task is created with or  *)
(* without a due date, its status is changed back and forth, half days     *)
(* pass, and the admin asks /tasks/my for what is overdue                  *)
(***************************************************************************)
\* the clock step of the overdue specification
HalfDay == Day \div 2

LoginO == ServeLogin(login(1, U_alice, "pw1"))

CreateTaskO ==
    \E a \in Opt({IdPool[1]}), due \in Opt({0, 1}) :
        ServeTasks("create_task",
                   create_task(T_Ship, <<>>, <<>>, <<>>, 0, due, a,
                               IdPool[1]))

UpdateStatusO ==
    \E st \in {In_COMPLETED, In_InProgress} :
        ServeTasks("update_status", update_status(IdPool[1], <<st>>))

OverdueQ ==
    \E r \in list_my_tasks(1, <<>>, <<>>, TRUE, 1, 100, <<>>) :
        ServeQuery("list_my_tasks", 1,
                   Request(<<>>, <<>>, TRUE, <<>>, 1, 100, <<>>), r)

TickO == Tick(HalfDay, MaxTicks * HalfDay)

NextOverdue ==
    \/ SeedAdminQ
    \/ ResetPasswordQ
    \/ LoginO
    \/ CreateTaskO
    \/ UpdateStatusO
    \/ OverdueQ
    \/ TickO

SpecOverdue == Init /\ [][NextOverdue]_vars

\* the tasks of user id that are open and have a due date
OpenDue(id) ==
    {t \in tasks : /\ t.assignee_id = <<id>>
                   /\ t.due_date # <<>>
                   /\ t.status \notin {S_completed, S_approved, S_rejected}}

\* C7: a /tasks/my request with overdue=true returns exactly the caller's
\* tasks whose due date is set and strictly before the current time and
\* whose status is none of completed, approved, rejected.  The due date is
\* a calendar day: "strictly before the current time" is taken either for
\* the day's first instant or for the whole day, whichever the answer fits.
C7_OverdueExactly ==
    \A c \in Accepted :
        \A r \in list_my_tasks(c, <<>>, <<>>, TRUE, 1, 100, <<>>) :
            r.code = 200 =>
                \/ {r.items[i] : i \in 1..Len(r.items)} =
                     {t \in OpenDue(Me(c)) : t.due_date[1] * Day < now}
                \/ {r.items[i] : i \in 1..Len(r.items)} =
                     {t \in OpenDue(Me(c)) : (t.due_date[1] + 1) * Day <= now}

(***************************************************************************)
(* SpecAuth: tokens over time.  The seeded admin (client 1) and a user bob *)
(* it creates (client 2) log in; they change their passwords, bob its      *)
(* email; the admin renames, re-roles and deletes either; half token       *)
(* lifetimes pass; and both probe their token on GET /users/me             *)
(***************************************************************************)

\* bodies of the admin's PATCH /users/{ref}: a rename, a change of role
AdminUpdates ==
    LET none == [username |-> <<>>, email |-> <<>>, role |-> <<>>,
                 password |-> <<>>]
    IN  {[none EXCEPT !.username = <<U_eve>>],
         [none EXCEPT !.role = <<"manager">>]}

LoginA ==
    \E c \in Clients : ServeLogin(login(c, Holder(c), "pw1"))

CreateUserA ==
    /\ Len(users) < MaxUsers
    /\ ServeUsers("create_user",
                  create_user(1, U_bob, E_bob, "employee", "pw1", IdPool[2]))

GetMeA ==
    \E c \in Clients : ServeUsers("get_me", get_me(c))

ChangeMyPasswordA ==
    \E c \in Clients :
        ServeUsers("change_my_password",
                   change_my_password(c, <<"pw1">>, <<"pw2">>))

UpdateMeA ==
    ServeUsers("update_me", update_me(2, <<E_eve>>))

UpdateUserA ==
    \E ref \in UserIds, d \in AdminUpdates :
        ServeUsers("update_user", update_user(1, ref, d))

DeleteUserA ==
    \E ref \in UserIds : ServeDelete(delete_user(1, ref))

TickA == Tick(HalfTtl, MaxTicks * HalfTtl)

NextAuth ==
    \/ SeedAdminQ
    \/ ResetPasswordQ
    \/ LoginA
    \/ CreateUserA
    \/ GetMeA
    \/ ChangeMyPasswordA
    \/ UpdateMeA
    \/ UpdateUserA
    \/ DeleteUserA
    \/ TickA

SpecAuth == Init /\ [][NextAuth]_vars

\* the clients that hold a token whose expiry instant is still ahead
Unexpired == {c \in Clients : tokens[c] # <<>> /\ now < tokens[c][1].exp}

\* some user carries the subject of client c's token as username or email
SubjectKnown(c) ==
    \E i \in Rows : \/ users[i].username = tokens[c][1].sub
                    \/ users[i].email = tokens[c][1].sub

\* C9 as stated: a token minted at a successful login is accepted on every
\* authenticated request made before its expiry, whatever was done in
\* between, renaming or deleting its subject user included.
C9_NeverRevoked ==
    \A c \in Unexpired : get_current_user(tokens[c]) # <<>>

\* C9 amended: there is no revocation list, but every request looks the
\* token's subject up; before its expiry a token is accepted exactly while
\* some user carries its subject as username or email.  Password change,
\* role change and email update of the subject leave it accepted; renaming
\* or deleting the subject makes it rejected before expiry.
C9_AcceptedWhileSubjectKnown ==
    \A c \in Unexpired :
        get_current_user(tokens[c]) # <<>> <=> SubjectKnown(c)

\* C9 witness: bob's token, minted before the clock moved, is accepted
\* right after bob changed its password, and is still short of its expiry
C9_Witness ==
    /\ resp.op = "change_my_password"
    /\ resp.code = 200
    /\ 2 \in Unexpired
    /\ tokens[2][1].iat < now
    /\ get_current_user(tokens[2]) # <<>>
    /\ get_current_user(tokens[2])[1].password_hash = get_password_hash("pw2")

\* C10: a token minted at time t with lifetime T verifies at every time
\* strictly before t + T and fails at every time at or after t + T: the
\* expiry instant itself is already rejected.
C10_ExpiryBoundary ==
    \A c \in Clients :
        tokens[c] # <<>> =>
            /\ tokens[c][1].exp = tokens[c][1].iat + ACCESS_TOKEN_EXPIRE_MINUTES
            /\ jwt_decode(tokens[c]) # <<>> <=> now < tokens[c][1].exp

\* the users whose stored credential is empty or of no known hash format
BadCredential == {i \in Rows : HashUnknown(users[i].password_hash)}

\* C13: checking a password against a stored credential that is malformed,
\* empty or of an unknown hash format yields false and never raises: login
\* and change_my_password end in their ordinary authentication failure
\* (400) for such a credential, never in an unhandled error, and the stored
\* credential is left unchanged.
C13_BadHashIsAuthFailure ==
    /\ \A i \in BadCredential : \A p \in Passwords :
          /\ get_user_by_identifier(users[i].username) = <<users[i]>> =>
                login(1, users[i].username, p).code = 400
    /\ \A c \in Clients :
          LET user == get_current_user(tokens[c])
              r == change_my_password(c, <<"pw1">>, <<"pw2">>)
          IN  user # <<>> /\ HashUnknown(user[1].password_hash) =>
                  r.code = 400 /\ r.users = users
    /\ resp.op = "change_my_password" => resp.code # 500

(***************************************************************************)
(* SpecDelete: the seeded admin and a user bob it creates hold tokens,     *)
(* tasks are created for either and for nobody, and both ask for users to  *)
(* be deleted, by id, by name and by a reference nobody carries            *)
(***************************************************************************)
\* the references DELETE /users/{ref} is tried with
DeleteRefs == UserIds \cup {U_bob, E_alice, U_eve}

CreateTaskD ==
    \E a \in Opt({IdPool[1], IdPool[2]}), id \in TaskIds :
        /\ Cardinality(tasks) < MaxTasks
        /\ ServeTasks("create_task",
                      create_task(T_Ship, <<>>, <<>>, <<>>, 0, <<>>, a, id))

UpdateStatusD ==
    \E k \in TaskIds :
        ServeTasks("update_status", update_status(k, <<In_COMPLETED>>))

DeleteUserD ==
    \E c \in Clients, ref \in DeleteRefs : ServeDelete(delete_user(c, ref))

NextDelete ==
    \/ SeedAdminQ
    \/ ResetPasswordQ
    \/ LoginQ
    \/ CreateUserQ
    \/ CreateTaskD
    \/ UpdateStatusD
    \/ DeleteUserD

SpecDelete == Init /\ [][NextDelete]_vars

\* the rows of a users table, as a set
RowSet(table) == {table[i] : i \in DOMAIN table}

\* task a is task b but possibly for its assignee reference, which is b's
\* or null
SameButAssignee(a, b) ==
    /\ [a EXCEPT !.assignee_id = <<>>] = [b EXCEPT !.assignee_id = <<>>]
    /\ a.assignee_id \in {b.assignee_id, <<>>}

\* C15: delete_user removes exactly the resolved user and deletes no task:
\* the task ids are the same before and after and every task keeps all its
\* fields but possibly the assignee reference (dangling or null); a
\* reference that resolves to no user fails with 404 and changes nothing.
C15_DeleteUserFrame ==
    \A c \in Clients, ref \in DeleteRefs :
        LET r == delete_user(c, ref)
            user == resolve_user(ref)
        IN  /\ {t.id : t \in r.tasks} = {t.id : t \in tasks}
            /\ \A a \in r.tasks : \E b \in tasks : SameButAssignee(a, b)
            /\ r.code = 204 =>
                  /\ user # <<>>
                  /\ RowSet(r.users) = RowSet(users) \ {user[1]}
                  /\ Len(r.users) = Len(users) - 1
            /\ r.code # 204 => r.users = users /\ r.tasks = tasks
            /\ user = <<>> /\ c \in Accepted \ Lesser => r.code = 404

\* C15 witness: a user that had a task was just deleted, the task is still
\* there, and a reference that resolves to nobody would be answered 404
C15_Witness ==
    /\ resp.op = "delete_user"
    /\ resp.code = 204
    /\ Len(users) = 1
    /\ \E t \in tasks : t.status = S_completed /\ t.assignee_id = <<>>
    /\ \E c \in Clients, ref \in DeleteRefs :
          delete_user(c, ref) = RefuseBoth(404)

(***************************************************************************)
(* routers/metrics.py: the dashboard counts.  SELECT Task.status returns   *)
(* the column's TaskStatus members; a bucket name is a string.             *)
(***************************************************************************)
DASH_KEYS ==
    <<"todo", "in_progress", "over_due", "completed", "approved", "rejected",
      "resubmission">>

\* _zero_dash()
_zero_dash == [k \in {DASH_KEYS[i] : i \in DOMAIN DASH_KEYS} \cup {"total"} |-> 0]

\* _norm(s): s is <<>> (None) or <<member>>, a TaskStatus member, of which
\* the function takes str()
_norm(s) ==
    LET x == StrReplace(StrReplace(StrLower(StrStrip(StrOfTaskStatus(s[1]))),
                                   "-", "_"), " ", "_")
    IN  IF s = <<>> THEN "todo"
        ELSE IF x \in {<<"t","o","_","d","o">>, <<"t","o","d","o">>} THEN "todo"
        ELSE IF x \in {<<"i","n","_","p","r","o","g","r","e","s","s">>, <<"p","r","o","g","r","e","s","s">>} THEN "in_progress"
        ELSE IF x \in {<<"o","v","e","r","_","d","u","e">>, <<"o","v","e","r","d","u","e">>, <<"p","a","s","t","_","d","u","e">>} THEN "over_due"
        ELSE IF x \in {<<"c","o","m","p","l","e","t","e","d">>, <<"d","o","n","e">>, <<"c","o","m","p","l","e","t","e">>} THEN "completed"
        ELSE IF x \in {<<"a","p","p","r","o","v","e","d">>, <<"a","p","p","r","o","v","e">>} THEN "approved"
        ELSE IF x \in {<<"r","e","j","e","c","t","e","d">>, <<"r","e","j","e","c","t">>} THEN "rejected"
        ELSE IF x \in {<<"r","e","_","s","u","b","m","i","s","s","i","o","n">>, <<"r","e","s","u","b","m","i","s","s","i","o","n">>, <<"r","e","_","s","u","b","m","i","t">>}
        THEN "resubmission"
        ELSE "todo"

\* sum(out[k] for k in DASH_KEYS), over the first n keys
RECURSIVE SumDash(_, _)
SumDash(out, n) == IF n = 0 THEN 0 ELSE out[DASH_KEYS[n]] + SumDash(out, n - 1)

\* the rows of SELECT status, count(*) FROM S GROUP BY status
GroupByStatus(S) ==
    {<<st, Cardinality({t \in S : t.status = st})>> : st \in {t.status : t \in S}}

\* the sum of the counts of a set of grouped rows
RECURSIVE SumRows(_)
SumRows(rows) ==
    IF rows = {} THEN 0
    ELSE LET row == CHOOSE x \in rows : TRUE
         IN  row[2] + SumRows(rows \ {row})

\* the loop over the grouped rows (in any order, the additions commute) and
\* the total
Tally(S) ==
    LET rows == GroupByStatus(S)
        key == [st \in {row[1] : row \in rows} |-> _norm(<<st>>)]
        counted == [k \in DOMAIN _zero_dash |->
                      IF k = "total" THEN 0
                      ELSE SumRows({row \in rows : key[row[1]] = k})]
    IN  [counted EXCEPT !["total"] = SumDash(counted, Len(DASH_KEYS))]

\* GET /stats/team
team_status_counts == Tally(tasks)

\* list.sort(key=total, reverse): a stable sort
SortByTotal(out, reverse) ==
    LET n == Len(out)
        before(j, i) ==
            \/ IF reverse THEN out[j].counts.total > out[i].counts.total
                          ELSE out[j].counts.total < out[i].counts.total
            \/ out[j].counts.total = out[i].counts.total /\ j < i
        rank(i) == Cardinality({j \in 1..n : before(j, i)}) + 1
    IN  [p \in 1..n |-> out[CHOOSE i \in 1..n : rank(i) = p]]

\* the orders in which the grouped rows may bring the assignee keys
KeyOrders ==
    LET keys == {t.assignee_id : t \in tasks}
    IN  {ord \in [1..Cardinality(keys) -> keys] :
           \A i, j \in DOMAIN ord : ord[i] = ord[j] => i = j}

\* the list before the sort, the keys first met in order ord
PerAssignee(ord) ==
    [i \in DOMAIN ord |->
       [assignee_key |-> ord[i],
        counts |-> Tally({t \in tasks : t.assignee_id = ord[i]})]]

\* status_counts_by_user that sorts by total ascending (a variant)
status_counts_by_user_ascending ==
    {SortByTotal(PerAssignee(ord), FALSE) : ord \in KeyOrders}

\* GET /stats/users: the answers it may give
status_counts_by_user ==
    {SortByTotal(PerAssignee(ord), TRUE) : ord \in KeyOrders}

(***************************************************************************)
(* SpecStats: tasks are created for either of two users and for nobody,    *)
(* their status is changed, and the dashboard asks                         *)
(* for the team counts and the counts per assignee                         *)
(***************************************************************************)
\* the number of tasks the dashboard is asked about
MaxDashTasks == 3

DashIds == {IdPool[i] : i \in 1..MaxDashTasks}

CreateTaskS ==
    \E a \in Opt({IdPool[1], IdPool[2]}) :
        /\ Cardinality(tasks) < MaxDashTasks
        /\ ServeTasks("create_task",
                      create_task(T_Ship, <<>>, <<>>, <<>>, 0, <<>>, a,
                                  IdPool[Cardinality(tasks) + 1]))

UpdateStatusS ==
    \E k \in DashIds, st \in {S_in_progress, S_resubmit} :
        ServeTasks("update_status", update_status(k, <<st>>))

TeamCountsS ==
    /\ resp' = [op |-> "team_status_counts", code |-> 200,
                body |-> team_status_counts]
    /\ UNCHANGED <<users, tasks, tokens, now, sessions>>

UserCountsS ==
    \E r \in status_counts_by_user :
        /\ resp' = [op |-> "status_counts_by_user", code |-> 200, body |-> r]
        /\ UNCHANGED <<users, tasks, tokens, now, sessions>>

NextStats ==
    \/ CreateTaskS
    \/ UpdateStatusS
    \/ TeamCountsS
    \/ UserCountsS

SpecStats == Init /\ [][NextStats]_vars

\* the seven bucket names
Buckets == {DASH_KEYS[i] : i \in DOMAIN DASH_KEYS}

\* counts gives every bucket a natural number, and these and its total add
\* up to n
CountsAddUpTo(counts, n) ==
    /\ DOMAIN counts = Buckets \cup {"total"}
    /\ \A k \in Buckets : counts[k] \in 0..n
    /\ counts.total = n
    /\ counts.total = counts.todo + counts.in_progress + counts.over_due
                      + counts.completed + counts.approved + counts.rejected
                      + counts.resubmission

\* C16: team_counts counts each task in exactly one of the seven buckets,
\* so that total is the sum of the seven counts and the number of tasks;
\* per_assignee_counts has one entry per distinct assignee value, whose
\* total is that assignee's number of tasks, and its entries are ordered by
\* total, non-increasing.
C16_CountsPartition ==
    /\ CountsAddUpTo(team_status_counts, Cardinality(tasks))
    /\ \A r \in status_counts_by_user :
          /\ Len(r) = Cardinality({t.assignee_id : t \in tasks})
          /\ {r[i].assignee_key : i \in DOMAIN r} = {t.assignee_id : t \in tasks}
          /\ \A i \in DOMAIN r :
                CountsAddUpTo(r[i].counts,
                              Cardinality({t \in tasks :
                                             t.assignee_id = r[i].assignee_key}))
          /\ \A i, j \in DOMAIN r :
                i < j => r[i].counts.total >= r[j].counts.total

\* C16 witness: the per-assignee counts were just served for three tasks,
\* two of one assignee and one of another, first met in the other order
C16_Witness ==
    /\ resp.op = "status_counts_by_user"
    /\ Cardinality(tasks) = 3
    /\ Len(resp.body) = 2
    /\ resp.body[1].counts.total = 2
    /\ resp.body[2].counts.total = 1
    /\ resp.body \in status_counts_by_user
    /\ \E ord \in KeyOrders : ord[1] = resp.body[2].assignee_key
    /\ \E t \in tasks : t.status = S_resubmit

\* the bucket of each canonical status
BucketOf(st) ==
    IF st = S_not_started THEN "todo"
    ELSE IF st = S_in_progress THEN "in_progress"
    ELSE IF st = S_completed THEN "completed"
    ELSE IF st = S_approved THEN "approved"
    ELSE IF st = S_rejected THEN "rejected"
    ELSE "resubmission"

\* counts counts every task of S in the bucket of its status
CountsByStatus(counts, S) ==
    \A k \in Buckets :
        counts[k] = Cardinality({t \in S : BucketOf(t.status) = k})

\* C18: in the team counts and the per-assignee counts a task is counted
\* in the bucket of its persisted canonical status: not_started in todo,
\* in_progress in in_progress, completed in completed, approved in approved,
\* rejected in rejected and resubmit in resubmission, not in todo.
C18_BucketPerStatus ==
    /\ CountsByStatus(team_status_counts, tasks)
    /\ \A r \in status_counts_by_user : \A i \in DOMAIN r :
          CountsByStatus(r[i].counts,
                         {t \in tasks : t.assignee_id = r[i].assignee_key})

(***************************************************************************)
(* routers/tasks.py under concurrency: update_task and update_status run   *)
(* in a thread each, with a Session each.  A handler reads its row         *)
(* (resolve_task), sets attributes on the loaded object, and at            *)
(* session.commit() the flush writes an UPDATE for the row, after which    *)
(* session.refresh re-reads it for the response.                           *)
(***************************************************************************)
\* the columns the two handlers set
Columns ==
    {"status", "priority", "progress", "due_date", "title", "description",
     "assignee_id", "updated_at"}

\* the attributes update_task sets on the loaded row, <<>> for a column it
\* does not set: the body after normalisation, and updated_at
update_task_sets(data) ==
    LET parsed == parse_due_date(data.due_date)
    IN  [status |-> canon_status(data.status),
         priority |-> canon_priority(data.priority),
         progress |-> IF data.percent_complete # <<>>
                      THEN <<Clamp(data.percent_complete[1])>>
                      ELSE data.progress,
         due_date |-> IF parsed # <<>> THEN <<parsed>> ELSE <<>>,
         title |-> data.title,
         description |-> IF data.description # <<>>
                         THEN <<data.description>> ELSE <<>>,
         assignee_id |-> IF data.assignee_id # <<>>
                         THEN <<data.assignee_id>> ELSE <<>>,
         updated_at |-> <<now>>]

\* the attributes update_status sets on the loaded row
update_status_sets(status) ==
    [c \in Columns |-> IF c = "status" THEN canon_status(status)
                       ELSE IF c = "updated_at" THEN <<now>>
                       ELSE <<>>]

\* the flush: UPDATE tasks SET ... WHERE id = ..., which names the columns
\* whose attribute was set to a value other than the loaded one (updated_at,
\* a fresh utcnow() of microsecond resolution, always is); row is the row as
\* stored when the UPDATE runs
Flush(row, loaded, dirty) ==
    [f \in DOMAIN row |->
       IF /\ f \in Columns
          /\ dirty[f] # <<>>
          /\ dirty[f][1] # loaded[f] \/ f = "updated_at"
       THEN dirty[f][1]
       ELSE row[f]]

\* a handler of client c runs up to its session.commit(): 404 when the key
\* resolves to no task, 400 when refused, else the row is loaded and the
\* attributes are set
ReadTask(c, op, task_key, dirty, refused) ==
    LET found == resolve_task(task_key)
        code == IF found = <<>> THEN 404 ELSE IF refused THEN 400 ELSE 0
    IN  /\ sessions[c].phase = "idle"
        /\ sessions' =
              [d \in Clients |->
                 IF d # c
                 THEN [sessions[d] EXCEPT !.overtook = @ \ {c}]
                 ELSE IF code # 0 THEN NoSession
                 ELSE [phase |-> "read", op |-> op, loaded |-> found,
                       dirty |-> dirty, code |-> 0, overtook |-> {},
                       last |-> FALSE]]
        /\ resp' = [op |-> op, code |-> code]
        /\ UNCHANGED <<users, tasks, tokens, now>>

\* session.commit(), session.refresh(t) and to_read(t) of client c's handler
CommitTask(c) ==
    LET s == sessions[c]
        id == s.loaded[1].id
        row == TaskByPk(id)
        t2 == Flush(row[1], s.loaded[1], s.dirty)
        code == IF row = <<>> THEN 500 ELSE IF to_read_ok(t2) THEN 200 ELSE 500
        same(d) == sessions[d].phase # "idle" /\ sessions[d].loaded[1].id = id
    IN  /\ s.phase = "read"
        /\ tasks' = IF row = <<>> THEN tasks ELSE PutTask(t2)
        /\ sessions' =
              [d \in Clients |->
                 IF d = c
                 THEN [s EXCEPT !.phase = "done", !.code = code,
                                !.last = TRUE,
                                !.overtook =
                                    {e \in Clients \ {c} :
                                       same(e) /\ sessions[e].phase = "read"}]
                 ELSE IF same(d) THEN [sessions[d] EXCEPT !.last = FALSE]
                 ELSE sessions[d]]
        /\ resp' = [op |-> s.op, code |-> code]
        /\ UNCHANGED <<users, tokens, now>>

(***************************************************************************)
(* SpecRace: a task is created, and every client sends one update of it or *)
(* one change of its status, each request reading and committing in steps  *)
(* of its own, while the clock moves                                       *)
(***************************************************************************)
T_Shipped == <<"S","h","i","p","p","e","d">>

\* bodies of the racing PUT /tasks/{key}
RaceUpdates ==
    {[NoKeys EXCEPT !.status = <<In_COMPLETED>>, !.title = <<T_Shipped>>],
     [NoKeys EXCEPT !.status = <<In_ToDo>>, !.title = <<T_Ship>>],
     [NoKeys EXCEPT !.percent_complete = <<250>>]}

CreateTaskR ==
    /\ tasks = {}
    /\ ServeTasks("create_task",
                  create_task(T_Ship, <<>>, <<>>, <<>>, 0, <<>>, <<>>,
                              IdPool[1]))

ReadUpdateTaskR ==
    \E c \in Clients, k \in {IdPool[1], IdPool[2]}, d \in RaceUpdates :
        ReadTask(c, "update_task", k, update_task_sets(d), FALSE)

ReadUpdateStatusR ==
    \E c \in Clients, st \in {In_ToDo, In_InProgress, In_Done} :
        ReadTask(c, "update_status", IdPool[1], update_status_sets(<<st>>),
                 canon_status(<<st>>) = <<>>)

CommitTaskR == \E c \in Clients : CommitTask(c)

TickR == Tick(1, MaxTicks)

NextRace ==
    \/ CreateTaskR
    \/ ReadUpdateTaskR
    \/ ReadUpdateStatusR
    \/ CommitTaskR
    \/ TickR

SpecRace == Init /\ [][NextRace]_vars

\* the pairs <<c, d>> of clients whose updates of one task both read the task
\* before either committed, c committing first and d last of all
Raced ==
    {p \in Clients \X Clients :
       /\ sessions[p[1]].phase = "done"
       /\ sessions[p[2]].phase = "done"
       /\ p[2] \in sessions[p[1]].overtook
       /\ sessions[p[2]].last}

\* C17: when two update requests on one task interleave so that both read
\* the task before either commits, both succeed, neither reports a
\* conflict, and every field both requests wrote ends with the value
\* written by the request that committed last.
C17_LastWriteWins ==
    \A p \in Raced :
        LET first == sessions[p[1]]
            last == sessions[p[2]]
            stored == TaskByPk(last.loaded[1].id)[1]
        IN  /\ first.code = 200
            /\ last.code = 200
            /\ \A f \in Columns :
                  first.dirty[f] # <<>> /\ last.dirty[f] # <<>> =>
                      stored[f] = last.dirty[f][1]

(***************************************************************************)
(* routers/users.py under concurrency: create_user, update_user and        *)
(* update_me run in a thread each, with a Session each.  A handler runs    *)
(* its uniqueness SELECTs, which hold no lock once they return, sets up    *)
(* its row, and at session.commit() the flush writes an INSERT or an       *)
(* UPDATE.  The users table declares a primary key on id and no UNIQUE     *)
(* constraint on username or email.                                        *)
(***************************************************************************)
\* the columns of a users row the handlers write
UserColumns == {"username", "email", "role", "password_hash"}

\* the row create_user adds to its session, as the attributes it sets
create_user_sets(row) ==
    [id |-> <<row.id>>, username |-> <<row.username>>, email |-> <<row.email>>,
     role |-> <<row.role>>, password_hash |-> <<row.password_hash>>]

\* the attributes update_user sets on the loaded user, <<>> for a column
\* the body does not set
update_user_sets(data) ==
    [id |-> <<>>, username |-> data.username, email |-> data.email,
     role |-> data.role,
     password_hash |-> IF data.password # <<>>
                       THEN <<get_password_hash(data.password[1])>>
                       ELSE <<>>]

\* the attributes update_me sets on the current user
update_me_sets(user, email) ==
    [id |-> <<>>, username |-> <<>>,
     email |-> IF email # <<>> /\ email[1] # <<>> /\ email[1] # user.email
               THEN email ELSE <<>>,
     role |-> <<>>, password_hash |-> <<>>]

\* the flush of an updated user: UPDATE users SET ... WHERE id = ..., which
\* names the columns whose attribute was set to a value other than the
\* loaded one; row is the row as stored when the UPDATE runs
FlushUser(row, loaded, dirty) ==
    [f \in DOMAIN row |->
       IF f \in UserColumns /\ dirty[f] # <<>> /\ dirty[f][1] # loaded[f]
       THEN dirty[f][1]
       ELSE row[f]]

\* a handler of client c runs up to its session.commit(): r is what the
\* handler would answer if it ran alone on the table as it is now; when r
\* is a refusal the request ends here, else the session holds the loaded
\* row (none for an insert) and the attributes set
CheckUser(c, op, r, ok, loaded, dirty) ==
    /\ sessions[c].phase # "checked"
    /\ sessions' =
          [d \in Clients |->
             IF d # c
             THEN [sessions[d] EXCEPT !.overtook = @ \ {c}]
             ELSE IF r.code # ok THEN NoSession
             ELSE [phase |-> "checked", op |-> op, loaded |-> loaded,
                   dirty |-> dirty, code |-> 0, overtook |-> {},
                   last |-> FALSE]]
    /\ resp' = [op |-> op, code |-> IF r.code # ok THEN r.code ELSE 0]
    /\ UNCHANGED <<users, tasks, tokens, now>>

\* session.commit() and session.refresh(user) of client c's handler: the
\* INSERT fails on a primary key already stored, the UPDATE on a row that
\* is gone; nothing else is checked by the table
CommitUser(c) ==
    LET s == sessions[c]
        insert == s.loaded = <<>>
        id == IF insert THEN s.dirty.id[1] ELSE s.loaded[1].id
        stored == UserByPk(id)
        row == [f \in {"id"} \cup UserColumns |-> s.dirty[f][1]]
        code == IF insert
                THEN IF stored # <<>> THEN 500 ELSE 201
                ELSE IF stored = <<>> THEN 500 ELSE 200
    IN  /\ s.phase = "checked"
        /\ users' = IF code = 201 THEN Append(users, row)
                    ELSE IF code = 200
                    THEN PutUser(id, FlushUser(stored[1], s.loaded[1], s.dirty))
                    ELSE users
        /\ sessions' =
              [sessions EXCEPT
                 ![c] = [s EXCEPT !.phase = "done", !.code = code,
                                  !.last = TRUE,
                                  !.overtook =
                                      {e \in Clients \ {c} :
                                         sessions[e].phase = "checked"}]]
        /\ resp' = [op |-> s.op, code |-> code]
        /\ UNCHANGED <<tasks, tokens, now>>

(***************************************************************************)
(* SpecUsersRace: an admin is seeded and logs in, and the clients send     *)
(* create_user, update_user and update_me requests, each running its       *)
(* checks and its commit in steps of its own                               *)
(***************************************************************************)
\* bodies of the racing PATCH /users/{ref}
RaceUserUpdates ==
    LET none == [username |-> <<>>, email |-> <<>>, role |-> <<>>,
                 password |-> <<>>]
    IN  {[none EXCEPT !.username = <<U_eve>>],
         [none EXCEPT !.email = <<E_eve>>]}

SeedAdminU ==
    /\ users = <<>>
    /\ ServeUsers("seed_admin", seed_admin(U_alice, E_alice, "pw1", IdPool[1]))

ResetPasswordU == ServeUsers("reset_password", reset_password(U_alice, "pw1"))

LoginU ==
    \E c \in Clients, u \in {U_alice, U_bob} :
        /\ sessions[c].phase # "checked"
        /\ ServeLogin(login(c, u, "pw1"))

\* short_uuid() returns an id no stored row has
CheckCreateUserU ==
    \E c \in Clients, u \in {U_bob, U_eve}, e \in {E_bob, E_eve} :
        LET newid == IdPool[1 + c]
            r == create_user(c, u, e, "employee", "pw1", newid)
        IN  /\ UserByPk(newid) = <<>>
            /\ CheckUser(c, "create_user", r, 201, <<>>,
                         create_user_sets(r.users[Len(r.users)]))

CheckUpdateUserU ==
    \E c \in Clients, ref \in {IdPool[1], IdPool[2]}, d \in RaceUserUpdates :
        CheckUser(c, "update_user", update_user(c, ref, d), 200,
                  resolve_user(ref), update_user_sets(d))

CheckUpdateMeU ==
    \E c \in Clients, e \in Some({E_eve}) :
        LET user == get_current_user(tokens[c])
        IN  CheckUser(c, "update_me", update_me(c, e), 200, user,
                      IF user = <<>> THEN update_user_sets(
                                            [username |-> <<>>, email |-> <<>>,
                                             role |-> <<>>, password |-> <<>>])
                      ELSE update_me_sets(user[1], e))

CommitUserU == \E c \in Clients : CommitUser(c)

NextUsersRace ==
    \/ SeedAdminU
    \/ ResetPasswordU
    \/ LoginU
    \/ CheckCreateUserU
    \/ CheckUpdateUserU
    \/ CheckUpdateMeU
    \/ CommitUserU

SpecUsersRace == Init /\ [][NextUsersRace]_vars

\* the pairs <<c, d>> of clients whose requests both ran their checks before
\* either committed, c committing before d
RacedUsers ==
    {p \in Clients \X Clients :
       /\ sessions[p[1]].phase = "done"
       /\ sessions[p[2]].phase = "done"
       /\ p[2] \in sessions[p[1]].overtook}

\* two requests carry the same username or the same email
SameIdentifier(a, b) ==
    \/ a.dirty.username # <<>> /\ a.dirty.username = b.dirty.username
    \/ a.dirty.email # <<>> /\ a.dirty.email = b.dirty.email

\* C21: uniqueness under concurrency.  When two requests among create_user,
\* update_user and update_me that carry the same username or the same email
\* both run their uniqueness checks before either commits, at most one of
\* them commits, and no reachable directory holds two users with the same
\* username or the same email.
C21_UniqueUnderConcurrency ==
    /\ Unique(users)
    /\ \A p \in RacedUsers :
          SameIdentifier(sessions[p[1]], sessions[p[2]]) =>
              ~(sessions[p[1]].code \in {200, 201} /\
                sessions[p[2]].code \in {200, 201})

(***************************************************************************)
(* routers/tasks.py: the two reads that take no bearer token               *)
(***************************************************************************)
\* GET /tasks: every row, newest first, each through to_read; the handler
\* has no get_current_user dependency
list_tasks ==
    {IF \A i \in 1..Len(rows) : to_read_ok(rows[i])
     THEN [code |-> 200, items |-> rows, page |-> 1, size |-> Len(rows),
           total |-> Len(rows)]
     ELSE RefuseQuery(500) :
     rows \in OrderBy(tasks, [col |-> "created_at", desc |-> TRUE])}

\* GET /tasks/{task_key}: the resolved row through to_read; the handler has
\* no get_current_user dependency
get_task(task_key) ==
    LET t == resolve_task(task_key)
    IN  IF t = <<>> THEN RefuseQuery(404)
        ELSE IF ~to_read_ok(t[1]) THEN RefuseQuery(500)
        ELSE [code |-> 200, items |-> t, page |-> 1, size |-> 1, total |-> 1]

(***************************************************************************)
(* SpecBoundary: the users, tokens and tasks of SpecQuery, with every      *)
(* operation of the task interface served to every client, whether it      *)
(* holds a token or not                                                    *)
(***************************************************************************)
\* the request of GET /tasks, which has no parameters
NoRequest == Request(<<>>, <<>>, FALSE, <<>>, 1, 100, <<>>)

ListTasksB ==
    \E c \in Clients : \E r \in list_tasks :
        ServeQuery("list_tasks", c, NoRequest, r)

GetTaskB ==
    \E c \in Clients, k \in TaskIds :
        ServeQuery("get_task", c, [NoRequest EXCEPT !.q = <<k>>], get_task(k))

UpdateStatusB ==
    \E k \in TaskIds :
        ServeTasks("update_status", update_status(k, <<In_COMPLETED>>))

DeleteTaskB ==
    \E k \in TaskIds : ServeTasks("delete_task", delete_task(k))

NextBoundary ==
    \/ SeedAdminQ
    \/ ResetPasswordQ
    \/ LoginQ
    \/ CreateUserQ
    \/ CreateTaskQ
    \/ UpdateTaskQ
    \/ MyTasksQ
    \/ SearchTasksQ
    \/ ListTasksB
    \/ GetTaskB
    \/ UpdateStatusB
    \/ DeleteTaskB

SpecBoundary == Init /\ [][NextBoundary]_vars

\* task t is assigned to a user other than the one client c is
\* authenticated as (to any user, when c is not authenticated)
AssignedToAnother(t, c) ==
    /\ t.assignee_id # <<>>
    /\ c \in Accepted => t.assignee_id # <<Me(c)>>

\* client c is authenticated as an admin or a manager
Privileged(c) ==
    c \in Accepted /\ get_current_user(tokens[c])[1].role \in {"admin", "manager"}

\* no row of the answer r is assigned to another user than client c
OwnRowsOnly(r, c) ==
    \A i \in 1..Len(r.items) : ~AssignedToAnother(r.items[i], c)

Success == 200..299

\* C22: the visibility boundary over the whole task interface.  To a caller
\* who is unauthenticated or whose role is neither admin nor manager, none
\* of GET /tasks, GET /tasks/my, GET /tasks/search and GET /tasks/{key}
\* returns a task assigned to someone else; and to a caller without a valid
\* bearer token no task create, update, status change or delete succeeds.
C22_VisibilityBoundary ==
    \A c \in Clients :
        /\ ~Privileged(c) =>
              /\ \A r \in list_tasks : OwnRowsOnly(r, c)
              /\ \A k \in TaskIds : OwnRowsOnly(get_task(k), c)
              /\ \A req \in Requests :
                    /\ \A r \in list_my_tasks(c, req.q, req.status,
                                              req.overdue, req.page,
                                              req.size, req.sort) :
                          OwnRowsOnly(r, c)
                    /\ \A r \in search_tasks(c, req.q, req.status,
                                             req.overdue, req.assignee,
                                             req.page, req.size, req.sort) :
                          OwnRowsOnly(r, c)
        /\ c \notin Accepted =>
              /\ \A id \in TaskIds :
                    create_task(T_Ship, <<>>, <<>>, <<>>, 0, <<>>, <<>>,
                                id).code \notin Success
              /\ \A k \in TaskIds :
                    /\ update_task(k, [NoKeys EXCEPT !.title = <<T_Ship>>]).code
                          \notin Success
                    /\ update_status(k, <<In_COMPLETED>>).code \notin Success
                    /\ delete_task(k).code \notin Success

====
